---- MODULE Spec2Model ----
(***************************************************************************)
(* DetectMateService: the component runtime.                               *)
(*                                                                         *)
(* The engine (corecomponent/features/engine.py) drives one loop worker    *)
(* that receives raw messages on a PAIR0 socket, calls process() and sends *)
(* the result.  Service (service/core.py) wraps start/stop with metrics,   *)
(* implements process() and runs the admin web server next to the engine.  *)
(* The output socket registry (settings.out_addr, the per-slot broadcast,  *)
(* the closing of the output sockets by stop) has no source under src/ and *)
(* is modelled from the specification.                                     *)
(***************************************************************************)
EXTENDS Integers, Sequences, FiniteSets, TLC

(* ---------------------------------------------------------------- bounds *)
MaxOut == 2          \* longest settings.out_addr explored
MaxControlOps == 2   \* control requests (admin API, pause) in a behaviour of Spec
MaxSends == 2        \* upstream messages in a behaviour of SpecData
MaxModules == 3      \* modules under the library root in a behaviour of SpecResolve
MaxCmds == 2         \* requests a client sends in a behaviour of SpecManager

(* -------------------------------------------------------------- payloads *)
\* raw messages are byte strings: sequences of small numbers
Boom == <<3>>
Skip == <<4, 4>>
Payloads == {<< >>, <<1, 2>>, Boom, Skip}

Callers == {"main", "admin"}

VARIABLES
    autostart,      \* settings.engine_autostart
    proc,           \* "none": no library component; "mock": a component
    nOut,           \* Len(settings.out_addr)
    running,        \* Engine._running
    paused,         \* Engine._paused (threading.Event)
    threadStarted,  \* Engine._thread has been started (Thread.start was called)
    workers,        \* number of loop workers alive
    wpc,            \* position of the loop worker in _run_loop
    wraw,           \* raw: the message the worker is handling
    wout,           \* out: the result the worker is sending
    wslot,          \* next slot of the broadcast
    inq,            \* messages sent by the upstream peer, not yet received
    sendsLeft,      \* messages the upstream peer may still send
    out,            \* output socket registry: state of each slot
    observed,       \* per slot: the last observation of the slot's peer
    reply,          \* the last observation of the peer on the input socket
    received,       \* number of messages the engine has received
    procCalls,      \* number of invocations of process()
    startsTotal,    \* engine_starts_total
    bytesTotal,     \* data_processed_bytes_total
    gauge,          \* engine_running
    exitEvent,      \* Service._service_exit_event
    webUp,          \* WebServer thread: "new", "up", "stopped"
    mainpc,         \* position of the main activity (constructor, run, __exit__)
    pc,             \* per caller: position inside Service.start / Service.stop
    ret,            \* per caller: what the last operation returned
    afterStop,      \* per caller: the start was issued on a stopped engine
    controlLeft,    \* control requests (admin API, pause) still to come
    hasConfig,      \* settings.config_file is set: Service.config_manager exists
    cfg,            \* ConfigManager._configs
    file,           \* the backing file of the ConfigManager
    lastStatus,     \* the report the last GET /admin/status returned
    rq,             \* per reconfigure handler: its payload and its position
    rqBase,         \* configuration and file when the handlers were submitted
    given,          \* per ServiceSettings construction: the field values given
    built,          \* per ServiceSettings construction: what it produced
    listening,      \* per slot: the peer of the output is listening
    dropped,        \* per slot: results sent while no peer was listening
    fin,            \* NngPairSocketFactory.create: the address and its surroundings
    fout,           \* NngPairSocketFactory.create: what the call left behind
    schema,         \* ConfigManager.schema is set
    writable,       \* the backing file and its directory may be written
    lret,           \* what the last ConfigManager.load returned or raised
    lib,            \* the modules under detectmatelibrary, in walk order
    rootOk,         \* detectmatelibrary itself can be imported
    rin,            \* ComponentResolver.resolve: the component_type given
    rres,           \* ComponentResolver.resolve: what it returned or raised
    mctor,          \* Manager.__init__: the statement it is about to run
    mtables,        \* Manager: which handler tables exist, and are filled
    mdeco,          \* Manager: the @manager_command methods of the class
    mloop,          \* ManagerCmdLoop: its position, command and reply
    mreq,           \* the request the client waits on, "-" for none
    msent,          \* requests the client has sent
    mgot,           \* replies the client has received
    mstop           \* Manager._stop_event

vars == <<autostart, proc, nOut, running, paused, threadStarted, workers,
          wpc, wraw, wout, wslot, inq, sendsLeft, out, observed, reply,
          received, procCalls, startsTotal, bytesTotal, gauge, exitEvent,
          webUp, mainpc, pc, ret, afterStop, controlLeft, hasConfig, cfg,
          file, lastStatus, rq, rqBase, given, built, listening, dropped,
          fin, fout, schema, writable, lret, lib, rootOk, rin, rres,
          mctor, mtables, mdeco, mloop, mreq, msent, mgot, mstop>>

linkVars == <<listening, dropped>>
factoryVars == <<fin, fout>>
loadVars == <<schema, writable, lret>>
resolverVars == <<lib, rootOk, rin, rres>>
managerVars == <<mctor, mtables, mdeco, mloop, mreq, msent, mgot, mstop>>
asideVars == <<factoryVars, loadVars, resolverVars, managerVars>>
settingsVars == <<autostart, proc, nOut, given, built, linkVars, asideVars>>
workerVars == <<wpc, wraw, wout, wslot>>
peerVars == <<inq, sendsLeft, observed, reply, received, procCalls>>
metricVars == <<startsTotal, bytesTotal, gauge>>
mainVars == <<exitEvent, webUp, mainpc>>
configVars == <<hasConfig, cfg, file, lastStatus, rq, rqBase>>
engineVars == <<running, paused, threadStarted, workers, workerVars, peerVars,
                out, metricVars>>
\* the service: its settings, its engine, its configuration, its callers
serviceVars == <<autostart, proc, nOut, given, built, linkVars, configVars, engineVars,
                 mainVars, pc, ret, afterStop, controlLeft>>

Slots == 1..nOut

(* ------------------------------------------------------------- processor *)
RECURSIVE Reverse(_)
Reverse(s) == IF s = << >> THEN << >> ELSE Append(Reverse(Tail(s)), Head(s))

Bytes(v) == [k |-> "bytes", v |-> v]
None == [k |-> "none", v |-> << >>]
Raise == [k |-> "raise", v |-> << >>]

\* the hosted component: raises on Boom, returns None on Skip, else raw[::-1]
ComponentProcess(raw) ==
    IF raw = Boom THEN Raise
    ELSE IF raw = Skip THEN None
    ELSE Bytes(Reverse(raw))

\* a pass-through that hands the bytes on in another order
ServiceProcessReversed(raw) ==
    IF proc = "mock" THEN ComponentProcess(raw) ELSE Bytes(Reverse(raw))

\* Service.process: delegate to the library component, else pass through
ServiceProcess(raw) ==
    IF proc = "mock" THEN ComponentProcess(raw) ELSE Bytes(raw)

\* a counter that is incremented after the processor has returned
BytesCountedAfterProcess(raw) == IF ServiceProcess(raw) = Raise THEN 0 ELSE Len(raw)

\* Service.process: the byte counter grows by len(raw) for a truthy raw
BytesCounted(raw) == IF raw # << >> THEN Len(raw) ELSE 0

(* ---------------------------------------------------------- observations *)
\* what a peer has observed: n messages so far, the last one carrying data,
\* the result for the idx-th message the engine received
NoObs == [n |-> 0, idx |-> 0, data |-> << >>]
Observe(o, i, d) == [n |-> o.n + 1, idx |-> i, data |-> d]

(* ---------------------------------------------------- configuration trees *)
\* a tree is a YAML mapping: what it holds under "detectors" (d) and under
\* "parsers" (p), and whether it has a key outside those two (e).  An entry
\* is "absent", "null", a map of maps ("m1", "m2") or a value of another
\* type ("bad")
Tree(d, p, e) == [d |-> d, p |-> p, e |-> e]
EmptyTree == Tree("absent", "absent", FALSE)
ExtrasOnly == Tree("absent", "absent", TRUE)

\* the trees an admin client submits to reconfigure
ReconfigTrees ==
    {EmptyTree, ExtrasOnly, Tree("m1", "absent", FALSE), Tree("m2", "m1", FALSE),
     Tree("m1", "absent", TRUE), Tree("bad", "absent", FALSE)}

\* ConfigManager._configs: None, the default of the schema, or a ServiceConfig
NullCfg == [k |-> "null", d |-> "null", p |-> "null"]
DefaultCfg == [k |-> "default", d |-> "null", p |-> "null"]
Invalid == [k |-> "invalid", d |-> "null", p |-> "null"]

\* an envelope that accepts every tree
EnvelopeAcceptsAll(t) == TRUE

\* ServiceConfig.model_validate accepts a tree whose detectors and parsers
\* agree with its own envelope, whatever schema the component supplied
EnvelopeAccepts(t) == t.d # "bad" /\ t.p # "bad"

\* ServiceConfig.model_validate(data): detectors and parsers are optional maps
\* of maps, a missing one is None, a key outside the model is ignored
ServiceConfigValidate(t) ==
    IF EnvelopeAccepts(t)
    THEN [k |-> "model",
          d |-> IF t.d = "absent" THEN "null" ELSE t.d,
          p |-> IF t.p = "absent" THEN "null" ELSE t.p]
    ELSE Invalid

\* model_dump(): a ServiceConfig dumps both of its fields, None included; the
\* default of the component's schema dumps the fields of that schema, none of
\* which is "detectors" or "parsers"
ModelDump(v) ==
    IF v.k = "model" THEN Tree(v.d, v.p, FALSE)
    ELSE IF v.k = "default" THEN ExtrasOnly
    ELSE EmptyTree

\* the backing file: absent, or a YAML document that decodes to a tree
\* (yaml.dump and yaml.safe_load are inverse on these mappings)
AbsentFile == [k |-> "absent", t |-> EmptyTree]
Doc(t) == [k |-> "doc", t |-> t]

\* ConfigManager.load on an existing file: falsy data installs nothing, other
\* data is validated against ServiceConfig
LoadExisting(f) == IF f.t = EmptyTree THEN NullCfg ELSE ServiceConfigValidate(f.t)

\* the files a service may find at config_file when it is constructed
InitialFiles == {AbsentFile, Doc(EmptyTree), Doc(Tree("m1", "absent", FALSE))}

\* GET /admin/status before any request
NoReport == [running |-> FALSE, configs |-> EmptyTree]

\* the reconfigure handlers of the admin API that run side by side
Requests == {"r1", "r2"}

\* a handler: the payload {config: t, persist}, whether the file may be
\* written when it saves, its position in Service.reconfigure, the dict it
\* has built for the save, and what it returned
Handler(t, persist, denied, at, dump, res) ==
    [t |-> t, persist |-> persist, denied |-> denied, at |-> at, dump |-> dump,
     res |-> res]

\* no reconfigure handler is submitted
NoRequests ==
    /\ rq = [r \in Requests |-> Handler(EmptyTree, FALSE, FALSE, "done", EmptyTree, "none")]
    /\ rqBase = [cfg |-> cfg, file |-> file]

\* settings.config_file is not set: Service builds no ConfigManager
NoConfigStore ==
    /\ hasConfig = FALSE
    /\ cfg = NullCfg
    /\ file = AbsentFile
    /\ lastStatus = NoReport

\* Service.__init__ builds the ConfigManager, whose constructor loads: a
\* missing file gets the default of the schema, saved with to_dict() if the
\* schema has one (no defaults: an empty mapping) and else with model_dump()
ConfigStoreBuilt ==
    /\ hasConfig = TRUE
    /\ \E f \in InitialFiles :
          IF f = AbsentFile
          THEN /\ cfg = DefaultCfg
               /\ file \in {Doc(EmptyTree), Doc(ModelDump(DefaultCfg))}
          ELSE /\ LoadExisting(f) # Invalid
               /\ cfg = LoadExisting(f)
               /\ file = f
    /\ lastStatus = NoReport

(* --------------------------------------------------------- ServiceSettings *)
\* an endpoint URI "<scheme>://<rest>"; None for a field that is not set
Addr(scheme, rest) == [scheme |-> scheme, rest |-> rest]
NoAddr == Addr("none", "")

\* the text of an address in an f-string, `addr or ''`
AddrText(a) == IF a = NoAddr THEN << >> ELSE <<a.scheme, "://", a.rest>>

\* the two constructions of a ServiceSettings that are compared
Objects == {1, 2}

\* the out_addr lists given to a construction
OutLists ==
    {<< >>, <<Addr("ipc", "o1")>>,
     <<Addr("ipc", "o1"), Addr("invalid", "bad.address"), Addr("ipc", "o2")>>}

\* the field values a construction may be given: component_id,
\* component_name ("" when not given), component_type, manager_addr,
\* engine_addr, and out_addr with whether it is given at all
SettingsInputs ==
    {[id |-> i, name |-> n, type |-> t, manager |-> m,
      engine |-> e, outGiven |-> g, out |-> o] :
        i \in {"", "u1"}, n \in {"", "n1"}, t \in {"core", "detector"},
        m \in {Addr("ipc", "m1"), Addr("ipc", "m2")},
        e \in {Addr("ipc", "e"), Addr("tcp", "h:1"), Addr("inproc", "test_engine")},
        g \in BOOLEAN, o \in OutLists}

\* uuid5(NAMESPACE_URL, name).hex: a function of the name, taken as
\* one-to-one; an id given by the user is kept as it is
Uuid5(name) == [k |-> "uuid5", v |-> name]
GivenId(id) == [k |-> "given", v |-> <<id>>]
NoId == [k |-> "none", v |-> << >>]

\* ServiceSettings._ensure_component_id
EnsureComponentId(i) ==
    IF i.id # "" THEN GivenId(i.id)
    ELSE IF i.name # "" THEN Uuid5(<<"detectmate/", i.type, "/", i.name>>)
    ELSE Uuid5(<<"detectmate/", i.type, "|">> \o AddrText(i.manager) \o <<"|">>
               \o AddrText(i.engine))

\* the fields of ServiceSettings are checked for their types only, and
\* `extra="forbid"` rejects a field the class does not declare: out_addr
SettingsAccepts(i) == ~i.outGiven

\* ServiceSettings(**i): the object, or a ValidationError
NotBuilt == [k |-> "none", id |-> NoId, engine |-> NoAddr, out |-> << >>]
ValidationError == [k |-> "ValidationError", id |-> NoId, engine |-> NoAddr, out |-> << >>]
Construct(i) ==
    IF SettingsAccepts(i)
    THEN [k |-> "settings", id |-> EnsureComponentId(i), engine |-> i.engine,
          out |-> << >>]
    ELSE ValidationError

\* no ServiceSettings construction is looked at
NoSettingsBuilt ==
    /\ given = [o \in Objects |-> CHOOSE i \in SettingsInputs : TRUE]
    /\ built = [o \in Objects |-> NotBuilt]

(* ---------------------------------------------------- NngPairSocketFactory *)
\* what a call of create meets: the scheme of the address; for ipc whether
\* the socket file exists and how unlink ends; for tcp whether the address
\* has a port and whether something accepts connections on it; and how
\* listen ends on a scheme the transport knows
FactoryInputs ==
    [scheme : {"ipc", "tcp", "inproc", "invalid"}, exists : BOOLEAN,
     unlink : {"ok", "ENOENT", "EPERM"}, port : BOOLEAN, inUse : BOOLEAN,
     listen : {"ok", "NNGException"}]

\* `sock.listen(addr)`: a scheme the transport does not know is NotSupported
ListenOutcome(a) == IF a.scheme = "invalid" THEN "NNGException" ELSE a.listen

\* what a call leaves behind: what it returned or raised (k), the Pair0
\* socket, the probe socket of the tcp check, and whether the file is there
Left(k, sock, probe, there) == [k |-> k, sock |-> sock, probe |-> probe, there |-> there]
NotCalled == Left("none", "none", "none", FALSE)

\* `except pynng.NNGException: ... sock.close(); raise`
OnListenFailure == "closed"

\* the end of create: `sock.listen(addr)`
Listen(a, probe, there) ==
    IF ListenOutcome(a) = "ok"
    THEN Left("socket", "open", probe, there \/ a.scheme = "ipc")
    ELSE Left("NNGException", OnListenFailure, probe, there)

\* NngPairSocketFactory.create: `sock = pynng.Pair0()`, the checks of the
\* scheme, then listen
Create(a) ==
    IF a.scheme = "ipc"
    THEN IF a.exists
         THEN CASE a.unlink = "ok" -> Listen(a, "none", FALSE)
                [] a.unlink = "ENOENT" -> Listen(a, "none", FALSE)
                [] OTHER -> Left("OSError", "open", "none", TRUE)
         ELSE Listen(a, "none", FALSE)
    ELSE IF a.scheme = "tcp"
    THEN IF ~a.port
         THEN Left("ValueError", "open", "none", FALSE)
         ELSE IF a.inUse
         THEN Left("OSError", "open", "closed", FALSE)
         ELSE Listen(a, "closed", FALSE)
    ELSE Listen(a, "none", FALSE)

\* an ipc address with no file in the way, on which listen succeeds
FreeAddress ==
    [scheme |-> "ipc", exists |-> FALSE, unlink |-> "ok", port |-> FALSE,
     inUse |-> FALSE, listen |-> "ok"]

\* engine_addr can be bound, and no call of the factory is looked at
NoFactoryCall ==
    /\ fin = FreeAddress
    /\ fout = NotCalled

\* the ConfigManager of the service has the schema of the component, and
\* no load other than the one of its constructor is looked at
NoLoad ==
    /\ schema = TRUE
    /\ writable = TRUE
    /\ lret = "none"

(* ------------------------------------------------------ ComponentResolver *)
\* a module of the library: whether its import succeeds, what it exports
\* under the name looked for ("none": nothing; "value": not a class;
\* "class": a class that is no CoreComponent; "base": CoreComponent itself;
\* "component": a subclass of CoreComponent), and whether it exports a
\* class <name>Config
Module(imports, sym, cfgc) == [imports |-> imports, sym |-> sym, cfgc |-> cfgc]
Broken == Module(FALSE, "none", FALSE)
Modules ==
    {Broken} \cup {Module(TRUE, y, c) :
                      y \in {"none", "value", "class", "base", "component"},
                      c \in BOOLEAN}

\* the libraries explored: up to MaxModules modules in walk order
Libraries == UNION {[1..n -> Modules] : n \in 0..MaxModules}

\* a search that takes any class of the name
MatchesAnyClass(m) == m.imports /\ m.sym \in {"class", "base", "component"}

\* _search_for_class: the module is imported, and the attribute of the name
\* is a class, a subclass of CoreComponent and not CoreComponent itself
Matches(m) == m.imports /\ m.sym = "component"

\* _search_for_class: the walk from module i on; 0 when it is exhausted
RECURSIVE Walk(_, _)
Walk(l, i) ==
    IF i > Len(l) THEN 0
    ELSE IF Matches(l[i]) THEN i
    ELSE Walk(l, i + 1)

\* _search_for_class: None (0) when the root cannot be imported
SearchForClass(l, root) == IF root THEN Walk(l, 1) ELSE 0

\* _find_config_in_module: <module>.<name>Config if the module can be
\* imported and exports that class, else the path of CoreConfig
FindConfig(l, i) ==
    IF i \in DOMAIN l /\ l[i].imports /\ l[i].cfgc THEN <<i, "Config">>
    ELSE <<0, "CoreConfig">>

\* what resolve is given: a short name, or a dotted path that names module
\* at of the library (0: a module outside of it)
ResolveInputs(l) ==
    {[dotted |-> FALSE, at |-> 0]} \cup {[dotted |-> TRUE, at |-> i] : i \in 0..Len(l)}

\* what resolve returns: the path of the component (the module found, or
\* the path given as it is) and the path of its config class; or ImportError
Resolved(k, at, cfgp) == [k |-> k, at |-> at, cfgp |-> cfgp]
NotResolved == Resolved("none", 0, <<0, "none">>)

\* ComponentResolver.resolve(component_type)
Resolve(l, root, x) ==
    IF x.dotted THEN Resolved("as given", x.at, FindConfig(l, x.at))
    ELSE IF SearchForClass(l, root) = 0 THEN Resolved("ImportError", 0, <<0, "none">>)
    ELSE Resolved("found", SearchForClass(l, root), FindConfig(l, SearchForClass(l, root)))

\* no resolution is looked at
NoResolve ==
    /\ lib = << >>
    /\ rootOk = TRUE
    /\ rin = [dotted |-> FALSE, at |-> 0]
    /\ rres = NotResolved

(* ---------------------------------------------------------------- Manager *)
\* the verbs a client sends, and the methods a subclass may decorate
Verbs == {"ping", "status", "reload", "bogus"}
Decorable == {"status", "reload"}

\* the loop thread: not started, in recv, in _handle_cmd, in send, ended by
\* the loop's exit, or ended by an exception nothing catches
Loop(at, cmd, answer) == [at |-> at, cmd |-> cmd, reply |-> answer]
NotStarted == Loop("none", "-", "-")

\* the tables of a Manager whose constructor has not reached them
NoTables == [handlers |-> FALSE, decorated |-> FALSE, discovered |-> FALSE]

\* __init__ from the listening socket on: the thread is started, then
\* _handlers, then _decorated_handlers, then _discover_decorated_commands
CtorOrder == <<"thread", "handlers", "decorated", "discover", "done">>

\* the statement after statement a of the constructor
CtorAfter(a) == CtorOrder[(CHOOSE i \in DOMAIN CtorOrder : CtorOrder[i] = a) + 1]

\* _handle_cmd with both tables present: _handlers is empty, a decorated
\* method answers for its verb once discovered, ping is built in
HandleCmd(verb, t, deco) ==
    IF t.discovered /\ verb \in deco THEN "handled"
    ELSE IF verb = "ping" THEN "pong"
    ELSE "unknown command"

\* no Manager is looked at
NoManager ==
    /\ mctor = "done"
    /\ mtables = NoTables
    /\ mdeco = {}
    /\ mloop = NotStarted
    /\ mreq = "-"
    /\ msent = 0
    /\ mgot = 0
    /\ mstop = FALSE

\* nothing happens beside the service
Aside == NoFactoryCall /\ NoLoad /\ NoResolve /\ NoManager

(* ------------------------------------------------------------------ Init *)
\* the state after Engine.__init__ has built the flags, the thread and the
\* input socket; the environment will send `sends` messages and issue
\* `controls` control requests
Constructed(sends, controls) ==
    /\ autostart \in BOOLEAN
    /\ proc \in {"none", "mock"}
    /\ nOut \in 0..MaxOut
    /\ running = FALSE
    /\ paused = FALSE
    /\ threadStarted = FALSE
    /\ workers = 0
    /\ wpc = "new"
    /\ wraw = << >>
    /\ wout = << >>
    /\ wslot = 0
    /\ inq = << >>
    /\ sendsLeft = sends
    /\ out = [i \in 1..nOut |-> "unopened"]
    /\ observed = [i \in 1..nOut |-> NoObs]
    /\ reply = NoObs
    /\ received = 0
    /\ procCalls = 0
    /\ startsTotal = 0
    /\ bytesTotal = 0
    /\ gauge = "unset"
    /\ exitEvent = FALSE
    /\ webUp = "new"
    /\ mainpc = "ctor"
    /\ pc = [c \in Callers |-> "idle"]
    /\ ret = [c \in Callers |-> "none"]
    /\ afterStop = [c \in Callers |-> FALSE]
    /\ controlLeft = controls

\* the peer of every output listens before the service is constructed
PeersListen ==
    /\ listening = [i \in 1..nOut |-> TRUE]
    /\ dropped = [i \in 1..nOut |-> 0]

\* no peer listens yet; the peers come up while the service runs
PeersDown ==
    /\ listening = [i \in 1..nOut |-> FALSE]
    /\ dropped = [i \in 1..nOut |-> 0]

Init ==
    Constructed(1, MaxControlOps) /\ NoConfigStore /\ NoRequests /\ NoSettingsBuilt
        /\ PeersListen
        /\ Aside

InitData ==
    Constructed(MaxSends, 1) /\ NoConfigStore /\ NoRequests /\ NoSettingsBuilt
        /\ PeersListen
        /\ Aside

\* the addresses the engine is started on: one that can be bound, one on
\* which listen fails, a tcp port in use
BindCases ==
    {FreeAddress, [FreeAddress EXCEPT !.listen = "NNGException"],
     [FreeAddress EXCEPT !.scheme = "tcp", !.port = TRUE, !.inUse = TRUE]}

\* a service whose engine_addr can or cannot be bound
InitBind ==
    /\ Constructed(1, MaxControlOps)
    /\ NoConfigStore
    /\ NoRequests
    /\ NoSettingsBuilt
    /\ PeersListen
    /\ fin \in BindCases
    /\ fout = NotCalled
    /\ NoLoad
    /\ NoResolve
    /\ NoManager

\* a service with a component whose outputs have no peer at the start
InitLate ==
    /\ Constructed(MaxSends, 1)
    /\ autostart
    /\ proc = "mock"
    /\ NoConfigStore
    /\ NoRequests
    /\ NoSettingsBuilt
    /\ PeersDown
    /\ Aside

\* a service with or without a config_file, one output at most and no
\* library component
InitConfig ==
    /\ Constructed(1, MaxControlOps)
    /\ autostart
    /\ proc = "none"
    /\ nOut <= 1
    /\ NoConfigStore \/ ConfigStoreBuilt
    /\ NoRequests
    /\ NoSettingsBuilt
    /\ PeersListen
    /\ Aside

\* a service with a configuration store, its engine idle, and two
\* reconfigure requests that reach the admin API together
InitReconfig ==
    /\ Constructed(0, 0)
    /\ ~autostart
    /\ proc = "none"
    /\ nOut = 0
    /\ ConfigStoreBuilt
    /\ rq \in [Requests -> {Handler(t, persist, denied, "pending", EmptyTree, "none") :
                               t \in ReconfigTrees, persist \in BOOLEAN,
                               denied \in BOOLEAN}]
    /\ rqBase = [cfg |-> cfg, file |-> file]
    /\ NoSettingsBuilt
    /\ PeersListen
    /\ Aside

\* two ServiceSettings are about to be constructed, before any service
InitSettings ==
    /\ Constructed(0, 0)
    /\ ~autostart
    /\ proc = "none"
    /\ nOut = 0
    /\ NoConfigStore
    /\ NoRequests
    /\ given \in [Objects -> SettingsInputs]
    /\ built = [o \in Objects |-> NotBuilt]
    /\ PeersListen
    /\ Aside

(* ------------------------------------------------- output socket registry *)
\* start, step (b): each output URI is opened; a failure marks the slot
\* broken and does not abort startup
OpenOutputs == [Slots -> {"ok", "broken"}]

\* a stop that closes the working sockets only
CloseWorkingOutputs == [i \in Slots |-> IF out[i] = "ok" THEN "closed" ELSE out[i]]

\* stop: every output socket is closed
CloseOutputs == [i \in Slots |-> "closed"]

(* ---------------------------------------------------------- Service.start *)
\* a caller enters Service.start; afterStop: a stop has returned and no
\* start has completed since
BeginStart(c) ==
    /\ pc' = [pc EXCEPT ![c] = "start_chk"]
    /\ ret' = [ret EXCEPT ![c] = "none"]
    /\ afterStop' = [afterStop EXCEPT ![c] = (gauge = "stopped")]

\* a call of c returns r (or raises, r = "RuntimeError")
Return(c, r) ==
    /\ pc' = [pc EXCEPT ![c] = "idle"]
    /\ ret' = [ret EXCEPT ![c] = r]
    /\ afterStop' = [afterStop EXCEPT ![c] = FALSE]

\* a start that never takes the early return
StartIgnoredNever == FALSE

\* Service.start: `if getattr(self, '_running', False)`
StartIgnored == running

\* Service.start: a start on a running engine is ignored
SvcStartCheck(c) ==
    /\ pc[c] = "start_chk"
    /\ IF StartIgnored
       THEN Return(c, "Ignored: Engine is already running")
       ELSE /\ pc' = [pc EXCEPT ![c] = "eng_start_chk"]
            /\ UNCHANGED <<ret, afterStop>>
    /\ UNCHANGED <<configVars, settingsVars, running, paused, threadStarted, workers,
                   workerVars, peerVars, out, metricVars, mainVars, controlLeft>>

\* Service.start: engine_starts_total.inc(), then Engine.start:
\* `if not self._running`, else "engine already running" and the gauge is set
EngStartCheck(c) ==
    /\ pc[c] = "eng_start_chk"
    /\ startsTotal' = startsTotal + 1
    /\ IF ~running
       THEN /\ pc' = [pc EXCEPT ![c] = "eng_start_set"]
            /\ UNCHANGED <<ret, afterStop, gauge>>
       ELSE /\ gauge' = "running"
            /\ Return(c, "engine already running")
    /\ UNCHANGED <<configVars, settingsVars, running, paused, threadStarted, workers,
                   workerVars, peerVars, out, bytesTotal, mainVars, controlLeft>>

\* start, step (a): the input socket is created by the factory on
\* engine_addr; a failure ends the start
InputBound == Create(fin).k = "socket"

\* a start that gives up when an output cannot be opened
OpenAbortsOnBroken(o) == \E i \in DOMAIN o : o[i] = "broken"

\* start, step (b): a failure to open an output is logged and does not
\* abort the startup
OpenAborts(o) == FALSE

\* Engine.start: `self._running = True`; the output sockets are opened
EngStartSet(c) ==
    /\ pc[c] = "eng_start_set"
    /\ IF ~InputBound
       THEN /\ Return(c, "EngineException")
            /\ UNCHANGED <<running, out>>
       ELSE /\ out' \in OpenOutputs
            /\ IF OpenAborts(out')
               THEN /\ Return(c, "RuntimeError")
                    /\ UNCHANGED running
               ELSE /\ running' = TRUE
                    /\ pc' = [pc EXCEPT ![c] = "eng_thread_start"]
                    /\ UNCHANGED <<ret, afterStop>>
    /\ UNCHANGED <<configVars, settingsVars, paused, threadStarted, workers, workerVars,
                   peerVars, metricVars, mainVars, controlLeft>>

\* threading.Thread.start on the one Thread object built by Engine.__init__:
\* a thread can only be started once
ThreadCanStart == ~threadStarted

\* Engine.start: `self._thread.start()`; Service.start then sets
\* engine_running.state('running') and returns "engine started"
EngThreadStart(c) ==
    /\ pc[c] = "eng_thread_start"
    /\ IF ThreadCanStart
       THEN /\ threadStarted' = TRUE
            /\ workers' = workers + 1
            /\ wpc' = "top"
            /\ gauge' = "running"
            /\ Return(c, "engine started")
       ELSE /\ Return(c, "RuntimeError")
            /\ UNCHANGED <<threadStarted, workers, wpc, gauge>>
    /\ UNCHANGED <<configVars, settingsVars, running, paused, wraw, wout, wslot, peerVars,
                   out, startsTotal, bytesTotal, mainVars, controlLeft>>

(* ----------------------------------------------------------- Service.stop *)
BeginStop(c) ==
    /\ pc' = [pc EXCEPT ![c] = "stop_chk"]
    /\ ret' = [ret EXCEPT ![c] = "none"]
    /\ UNCHANGED afterStop

\* a stop that never takes the early return
StopIgnoredNever == FALSE

\* Service.stop: `if not getattr(self, "_running", False)`
StopIgnored == ~running

\* Service.stop: a stop on an engine that is not running is ignored
SvcStopCheck(c) ==
    /\ pc[c] = "stop_chk"
    /\ IF StopIgnored
       THEN Return(c, "engine already stopped")
       ELSE /\ pc' = [pc EXCEPT ![c] = "eng_stop_chk"]
            /\ UNCHANGED <<ret, afterStop>>
    /\ UNCHANGED <<configVars, settingsVars, running, paused, threadStarted, workers,
                   workerVars, peerVars, out, metricVars, mainVars, controlLeft>>

\* Engine.stop: `if self._running: self._running = False`, else
\* "engine not running", after which Service.stop sets the gauge and returns
EngStopSet(c) ==
    /\ pc[c] = "eng_stop_chk"
    /\ IF running
       THEN /\ running' = FALSE
            /\ pc' = [pc EXCEPT ![c] = "eng_stop_join"]
            /\ UNCHANGED <<ret, afterStop, gauge>>
       ELSE /\ gauge' = "stopped"
            /\ Return(c, "engine stopped")
            /\ UNCHANGED running
    /\ UNCHANGED <<configVars, settingsVars, paused, threadStarted, workers, workerVars,
                   peerVars, out, startsTotal, bytesTotal, mainVars, controlLeft>>

\* a join that returns at once
JoinedAlways == TRUE

\* Thread.join returns before its timeout when the thread has ended
Joined == wpc = "exited"

\* Engine.stop: `self._thread.join(timeout=1.0)` returns when the worker has
\* exited, and otherwise when the grace of one second has run out
EngStopJoin(c) ==
    /\ pc[c] = "eng_stop_join"
    /\ IF ~threadStarted
       THEN Return(c, "RuntimeError")
       ELSE /\ pc' = [pc EXCEPT ![c] = IF Joined THEN "eng_stop_close"
                                       ELSE "eng_stop_timeout"]
            /\ UNCHANGED <<ret, afterStop>>
    /\ UNCHANGED <<configVars, settingsVars, running, paused, threadStarted, workers,
                   workerVars, peerVars, out, metricVars, mainVars, controlLeft>>

\* stop closes every output socket; Service.stop then sets
\* engine_running.state('stopped') and returns "engine stopped"
EngStopClose(c) ==
    /\ pc[c] \in {"eng_stop_close", "eng_stop_timeout"}
    /\ out' = CloseOutputs
    /\ gauge' = "stopped"
    /\ Return(c, "engine stopped")
    /\ UNCHANGED <<configVars, settingsVars, running, paused, threadStarted, workers,
                   workerVars, peerVars, startsTotal, bytesTotal, mainVars,
                   controlLeft>>

(* ---------------------------------------------------- Engine.pause/resume *)
\* Engine.pause: `self._paused.set()`
Pause ==
    /\ controlLeft > 0
    /\ ~paused
    /\ paused' = TRUE
    /\ controlLeft' = controlLeft - 1
    /\ UNCHANGED <<configVars, settingsVars, running, threadStarted, workers, workerVars,
                   peerVars, out, metricVars, mainVars, pc, ret, afterStop>>

\* Engine.resume: `self._paused.clear()`
Resume ==
    /\ paused
    /\ paused' = FALSE
    /\ UNCHANGED <<configVars, settingsVars, running, threadStarted, workers, workerVars,
                   peerVars, out, metricVars, mainVars, pc, ret,
                   afterStop, controlLeft>>

(* ------------------------------------------------------- Engine._run_loop *)
\* `while self._running:`; a paused iteration sleeps and checks again, so
\* the worker gets past the top of the loop once it is stopped or not paused
WorkerTop ==
    /\ wpc = "top"
    /\ ~running \/ ~paused
    /\ IF ~running
       THEN /\ wpc' = "exited"
            /\ workers' = workers - 1
       ELSE /\ wpc' = "recv"
            /\ UNCHANGED workers
    /\ UNCHANGED <<configVars, settingsVars, running, paused, threadStarted, wraw, wout,
                   wslot, peerVars, out, metricVars, mainVars, pc, ret,
                   afterStop, controlLeft>>

\* `raw = self._pair_sock.recv()`: blocks until a message is there
WorkerRecv ==
    /\ wpc = "recv"
    /\ inq # << >>
    /\ wraw' = Head(inq)
    /\ inq' = Tail(inq)
    /\ received' = received + 1
    /\ wpc' = "proc"
    /\ UNCHANGED <<configVars, settingsVars, running, paused, threadStarted, workers, wout,
                   wslot, sendsLeft, observed, reply, procCalls, out, metricVars,
                   mainVars, pc, ret, afterStop, controlLeft>>

\* a loop that sends nothing
ShouldSendNever(r) == FALSE

\* `if out is not None:` the result is sent
ShouldSend(r) == r.k = "bytes"

\* `self._pair_sock.send(out)`: what is sent is the result of process
SentPayload(raw) == ServiceProcess(raw).v

\* a loop that ends on an exception of process
OnExceptionExit == "exited"

\* `except Exception: continue`: where the loop goes on after an exception
OnException == "top"

\* `out = self.process(raw)`: Service.process counts the bytes and calls
\* the component; the loop swallows an exception and skips a None
WorkerProcess ==
    /\ wpc = "proc"
    /\ procCalls' = procCalls + 1
    /\ bytesTotal' = bytesTotal + BytesCounted(wraw)
    /\ IF ServiceProcess(wraw) = Raise
       THEN /\ wpc' = OnException
            /\ UNCHANGED <<wout, wslot>>
       ELSE IF ShouldSend(ServiceProcess(wraw))
       THEN /\ wout' = SentPayload(wraw)
            /\ wslot' = 1
            /\ wpc' = "send"
       ELSE /\ wpc' = "top"
            /\ UNCHANGED <<wout, wslot>>
    /\ UNCHANGED <<configVars, settingsVars, running, paused, threadStarted, workers, wraw,
                   inq, sendsLeft, observed, reply, received, out, startsTotal,
                   gauge, mainVars, pc, ret, afterStop, controlLeft>>

\* `self._pair_sock.send(out)`: with no output configured the result goes
\* back to the peer on the input socket
WorkerReply ==
    /\ wpc = "send"
    /\ nOut = 0
    /\ reply' = Observe(reply, received, wout)
    /\ wpc' = "top"
    /\ wslot' = 0
    /\ UNCHANGED <<configVars, settingsVars, running, paused, threadStarted, workers, wraw,
                   wout, inq, sendsLeft, observed, received, procCalls, out,
                   metricVars, mainVars, pc, ret, afterStop, controlLeft>>

\* a broadcast that does not advance
SameSlot(i) == i

\* the broadcast visits the registry in order: the position after slot i
NextSlot(i) == i + 1

\* a broadcast that sends to every socket
IsWorkingAlways(i) == TRUE

\* a broadcast that tries a broken socket again
IsWorkingOrBroken(i) == out[i] \in {"ok", "broken"}

\* the broadcast sends to working sockets only
IsWorking(i) == out[i] = "ok"

\* a send failure marks that slot broken
MarkBroken(i) == [out EXCEPT ![i] = "broken"]

\* a broadcast that a send failure ends
AbortBroadcast(i) == 0

\* after a send failure on slot i the remaining slots continue
AfterFailure(i) == NextSlot(i)

\* a send that reaches a peer wherever the slot is working
ReachesAlways(i) == TRUE

\* a result sent on a slot reaches the peer when the peer is listening
Reaches(i) == listening[i]

\* broadcast, one slot: send(result) on a working socket succeeds or
\* fails; with no peer listening the result does not arrive: it is dropped
\* or the send fails
WorkerSend ==
    /\ wpc = "send"
    /\ nOut > 0
    /\ wslot \in Slots
    /\ \/ /\ IsWorking(wslot)
          /\ Reaches(wslot)
          /\ observed' = [observed EXCEPT ![wslot] = Observe(@, received, wout)]
          /\ UNCHANGED <<out, dropped>>
          /\ wslot' = IF NextSlot(wslot) \in Slots THEN NextSlot(wslot) ELSE 0
       \/ /\ IsWorking(wslot)
          /\ ~Reaches(wslot)
          /\ dropped' = [dropped EXCEPT ![wslot] = @ + 1]
          /\ UNCHANGED <<out, observed>>
          /\ wslot' = IF NextSlot(wslot) \in Slots THEN NextSlot(wslot) ELSE 0
       \/ /\ IsWorking(wslot)
          /\ out' = MarkBroken(wslot)
          /\ UNCHANGED <<observed, dropped>>
          /\ wslot' = IF AfterFailure(wslot) \in Slots THEN AfterFailure(wslot) ELSE 0
       \/ /\ ~IsWorking(wslot)
          /\ UNCHANGED <<out, observed, dropped>>
          /\ wslot' = IF NextSlot(wslot) \in Slots THEN NextSlot(wslot) ELSE 0
    /\ wpc' = IF wslot' = 0 THEN "top" ELSE "send"
    /\ UNCHANGED <<configVars, autostart, proc, nOut, given, built, listening, asideVars,
                   running,
                   paused, threadStarted, workers, wraw, wout, inq, sendsLeft, reply,
                   received, procCalls, metricVars, mainVars, pc, ret, afterStop,
                   controlLeft>>

\* the peer of an output starts to listen on its address
PeerListen(i) ==
    /\ ~listening[i]
    /\ listening' = [listening EXCEPT ![i] = TRUE]
    /\ UNCHANGED <<autostart, proc, nOut, given, built, dropped, asideVars, configVars,
                   engineVars, mainVars, pc, ret, afterStop, controlLeft>>

(* ----------------------------------------------------------- upstream peer *)
\* the upstream peer dials engine_addr and sends a message
PeerSend ==
    /\ sendsLeft > 0
    /\ \E m \in Payloads : inq' = Append(inq, m)
    /\ sendsLeft' = sendsLeft - 1
    /\ UNCHANGED <<configVars, settingsVars, running, paused, threadStarted, workers,
                   workerVars, observed, reply, received, procCalls, out,
                   metricVars, mainVars, pc, ret, afterStop, controlLeft>>

(* ------------------------------------------------------- the main activity *)

\* Engine.__init__: `if getattr(settings, "engine_autostart", True): self.start()`
MainCtorAutostart ==
    /\ mainpc = "ctor"
    /\ IF autostart
       THEN /\ BeginStart("main")
            /\ mainpc' = "ctor_call"
       ELSE /\ mainpc' = "run_web"
            /\ UNCHANGED <<pc, ret, afterStop>>
    /\ UNCHANGED <<configVars, settingsVars, engineVars, exitEvent, webUp, controlLeft>>

\* Service.run: `self.web_server.start()`
MainRunWeb ==
    /\ mainpc = "run_web"
    /\ webUp' = "up"
    /\ mainpc' = "run_auto"
    /\ UNCHANGED <<configVars, settingsVars, engineVars, exitEvent, pc, ret,
                   afterStop, controlLeft>>

\* Service.run: `if self.settings.engine_autostart: self.start()`
MainRunAutostart ==
    /\ mainpc = "run_auto"
    /\ IF autostart
       THEN /\ BeginStart("main")
            /\ mainpc' = "run_call"
       ELSE /\ mainpc' = "wait"
            /\ UNCHANGED <<pc, ret, afterStop>>
    /\ UNCHANGED <<configVars, settingsVars, engineVars, exitEvent, webUp, controlLeft>>

\* Service.run: `self._service_exit_event.wait()`, then `self.web_server.stop()`
MainWait ==
    /\ mainpc = "wait"
    /\ exitEvent
    /\ webUp' = "stopped"
    /\ mainpc' = "td_eng"
    /\ UNCHANGED <<configVars, settingsVars, engineVars, exitEvent, pc, ret,
                   afterStop, controlLeft>>

\* a signal (KeyboardInterrupt) reaches the main thread while it waits in
\* Service.run: run is left by the exception, without its teardown
MainInterrupt ==
    /\ mainpc = "wait"
    /\ mainpc' = "exit_ctx"
    /\ UNCHANGED <<configVars, settingsVars, engineVars, exitEvent, webUp, pc, ret,
                   afterStop, controlLeft>>

\* Service.run: `if getattr(self, "_running", False): self.stop()`
MainTeardownEngine ==
    /\ mainpc = "td_eng"
    /\ IF running
       THEN /\ BeginStop("main")
            /\ mainpc' = "td_call"
       ELSE /\ mainpc' = "exit_ctx"
            /\ UNCHANGED <<pc, ret, afterStop>>
    /\ UNCHANGED <<configVars, settingsVars, engineVars, exitEvent, webUp, controlLeft>>

\* what a start returns when it has raised
Raised == {"RuntimeError", "EngineException"}

\* a start or stop called by the main activity has returned or raised
MainReturn ==
    /\ mainpc \in {"ctor_call", "run_call", "td_call"}
    /\ pc["main"] = "idle"
    /\ mainpc' = CASE mainpc = "ctor_call" ->
                        IF ret["main"] \in Raised THEN "crashed" ELSE "run_web"
                   [] mainpc = "run_call" ->
                        IF ret["main"] \in Raised THEN "exit_ctx" ELSE "wait"
                   [] OTHER -> "exit_ctx"
    /\ UNCHANGED <<configVars, settingsVars, engineVars, exitEvent, webUp, pc, ret,
                   afterStop, controlLeft>>

\* Service.__exit__: `if not self._service_exit_event.is_set(): self.shutdown()`
MainExit ==
    /\ mainpc = "exit_ctx"
    /\ exitEvent' = TRUE
    /\ mainpc' = "done"
    /\ UNCHANGED <<configVars, settingsVars, engineVars, webUp, pc, ret, afterStop, controlLeft>>

(* ---------------------------------------------------------- the admin API *)
\* POST /admin/start: the handlers are coroutines of one event loop, so one
\* request runs at a time
AdminStart ==
    /\ webUp = "up"
    /\ pc["admin"] = "idle"
    /\ controlLeft > 0
    /\ controlLeft' = controlLeft - 1
    /\ BeginStart("admin")
    /\ UNCHANGED <<configVars, settingsVars, engineVars, mainVars>>

\* POST /admin/stop
AdminStop ==
    /\ webUp = "up"
    /\ pc["admin"] = "idle"
    /\ controlLeft > 0
    /\ controlLeft' = controlLeft - 1
    /\ BeginStop("admin")
    /\ UNCHANGED <<configVars, settingsVars, engineVars, mainVars>>

\* POST /admin/shutdown: Service.shutdown sets the exit event
AdminShutdown ==
    /\ webUp = "up"
    /\ pc["admin"] = "idle"
    /\ controlLeft > 0
    /\ controlLeft' = controlLeft - 1
    /\ exitEvent' = TRUE
    /\ ret' = [ret EXCEPT !["admin"] = "Service is shutting down..."]
    /\ UNCHANGED <<configVars, settingsVars, engineVars, webUp, mainpc, pc, afterStop>>

(* ------------------------------------------------ reconfigure and status *)
\* Service._create_status_report: the "configs" entry is the dump of the
\* current configuration, and empty without a manager or a configuration
StatusConfigs == IF hasConfig /\ cfg # NullCfg THEN ModelDump(cfg) ELSE EmptyTree

\* GET /admin/status: the report is built from _running and the configuration
AdminStatus ==
    /\ webUp = "up"
    /\ pc["admin"] = "idle"
    /\ controlLeft > 0
    /\ controlLeft' = controlLeft - 1
    /\ lastStatus' = [running |-> running, configs |-> StatusConfigs]
    /\ ret' = [ret EXCEPT !["admin"] = "status report"]
    /\ UNCHANGED <<hasConfig, cfg, file, rq, rqBase, settingsVars, engineVars,
                   mainVars, pc, afterStop>>

\* a reconfigure that treats no tree as empty
IsNoOpNever(t) == FALSE

\* Service.reconfigure: `if not config_data`
IsNoOp(t) == t = EmptyTree

\* an update that installs what validation returned, whatever it is
InstalledUnchecked(t, old) == ServiceConfigValidate(t)

\* ConfigManager.update: the validated value is assigned to _configs; when
\* model_validate raises, the assignment does not happen
Installed(t, old) ==
    IF ServiceConfigValidate(t) = Invalid THEN old ELSE ServiceConfigValidate(t)

\* a reconfigure that saves whatever persist says
WritesFileAlways(persist) == TRUE

\* Service.reconfigure: `if persist:`
WritesFile(persist) == persist

\* a save that writes an empty mapping
PersistedNothing(v) == EmptyTree

\* Service.reconfigure: the dict handed to ConfigManager.save is
\* validated_config.model_dump() (a ServiceConfig has no to_dict)
PersistedTree(v) == ModelDump(v)

\* Service.reconfigure(config_data = t, persist); ConfigManager.save may fail
\* on a file it is not permitted to write, after the update in memory
Reconfigure(t, persist) ==
    IF ~hasConfig
    THEN /\ ret' = [ret EXCEPT !["admin"] = "reconfigure: no config manager configured"]
         /\ UNCHANGED <<cfg, file>>
    ELSE IF IsNoOp(t)
    THEN /\ ret' = [ret EXCEPT !["admin"] = "reconfigure: no-op (empty config data)"]
         /\ UNCHANGED <<cfg, file>>
    ELSE /\ cfg' = Installed(t, cfg)
         /\ IF ServiceConfigValidate(t) = Invalid
            THEN /\ ret' = [ret EXCEPT !["admin"] = "reconfigure: error - ValidationError"]
                 /\ UNCHANGED file
            ELSE IF WritesFile(persist)
            THEN \/ /\ file' = Doc(PersistedTree(cfg'))
                    /\ ret' = [ret EXCEPT !["admin"] = "reconfigure: ok"]
                 \/ /\ ret' = [ret EXCEPT !["admin"] = "reconfigure: error - PermissionError"]
                    /\ UNCHANGED file
            ELSE /\ ret' = [ret EXCEPT !["admin"] = "reconfigure: ok"]
                 /\ UNCHANGED file

\* POST /admin/reconfigure with the payload {config: t, persist: persist}
ReconfigureRequest(t, persist) ==
    /\ webUp = "up"
    /\ pc["admin"] = "idle"
    /\ controlLeft > 0
    /\ controlLeft' = controlLeft - 1
    /\ Reconfigure(t, persist)
    /\ UNCHANGED <<hasConfig, lastStatus, rq, rqBase, settingsVars, engineVars,
                   mainVars, pc, afterStop>>

AdminReconfigure == \E t \in ReconfigTrees, persist \in BOOLEAN : ReconfigureRequest(t, persist)

(* ------------------------------------------------------------------- Next *)
Next ==
    \/ \E c \in Callers : SvcStartCheck(c)
    \/ \E c \in Callers : EngStartCheck(c)
    \/ \E c \in Callers : EngStartSet(c)
    \/ \E c \in Callers : EngThreadStart(c)
    \/ \E c \in Callers : SvcStopCheck(c)
    \/ \E c \in Callers : EngStopSet(c)
    \/ \E c \in Callers : EngStopJoin(c)
    \/ \E c \in Callers : EngStopClose(c)
    \/ Pause
    \/ Resume
    \/ WorkerTop
    \/ WorkerRecv
    \/ WorkerProcess
    \/ WorkerReply
    \/ WorkerSend
    \/ PeerSend
    \/ MainCtorAutostart
    \/ MainRunWeb
    \/ MainRunAutostart
    \/ MainWait
    \/ MainInterrupt
    \/ MainTeardownEngine
    \/ MainReturn
    \/ MainExit
    \/ AdminStart
    \/ AdminStop
    \/ AdminShutdown
    \/ AdminStatus
    \/ AdminReconfigure

Spec == Init /\ [][Next]_vars

\* the same program with the data path in front: more upstream messages,
\* one admin request
SpecData == InitData /\ [][Next]_vars

\* the same program with a configuration store
SpecConfig == InitConfig /\ [][Next]_vars

(* ------------------------------------- reconfigure handlers, step by step *)
\* an event loop that runs handlers side by side
LoopRunsAny(r) == TRUE

\* admin_reconfigure is a coroutine that calls Service.reconfigure without
\* awaiting: the event loop of the server runs it to its end before it
\* takes up another handler
LoopRuns(r) == \A q \in Requests \ {r} : rq[q].at \in {"pending", "done"}

\* handler r returns res
RqReturn(r, res) == rq' = [rq EXCEPT ![r].at = "done", ![r].res = res]

\* Service.reconfigure: the two early returns
RqCheck(r) ==
    /\ rq[r].at = "pending"
    /\ LoopRuns(r)
    /\ IF ~hasConfig
       THEN RqReturn(r, "reconfigure: no config manager configured")
       ELSE IF IsNoOp(rq[r].t)
       THEN RqReturn(r, "reconfigure: no-op (empty config data)")
       ELSE rq' = [rq EXCEPT ![r].at = "update"]
    /\ UNCHANGED <<hasConfig, cfg, file, lastStatus, rqBase, settingsVars, engineVars,
                   mainVars, pc, ret, afterStop, controlLeft>>

\* Service.reconfigure: `self.config_manager.update(config_data)`, under the
\* lock of the ConfigManager
RqUpdate(r) ==
    /\ rq[r].at = "update"
    /\ LoopRuns(r)
    /\ cfg' = Installed(rq[r].t, cfg)
    /\ IF ServiceConfigValidate(rq[r].t) = Invalid
       THEN RqReturn(r, "reconfigure: error - ValidationError")
       ELSE IF WritesFile(rq[r].persist)
       THEN rq' = [rq EXCEPT ![r].at = "get"]
       ELSE RqReturn(r, "reconfigure: ok")
    /\ UNCHANGED <<hasConfig, file, lastStatus, rqBase, settingsVars, engineVars,
                   mainVars, pc, ret, afterStop, controlLeft>>

\* Service.reconfigure: `validated_config = self.config_manager.get()` and
\* its conversion to a dict: the configuration that is current at that moment
RqGet(r) ==
    /\ rq[r].at = "get"
    /\ LoopRuns(r)
    /\ rq' = [rq EXCEPT ![r].at = "save", ![r].dump = PersistedTree(cfg)]
    /\ UNCHANGED <<hasConfig, cfg, file, lastStatus, rqBase, settingsVars, engineVars,
                   mainVars, pc, ret, afterStop, controlLeft>>

\* ConfigManager.save(config_dict): the file is written outside the lock; a
\* PermissionError comes back as "reconfigure: error - ..."
RqSave(r) ==
    /\ rq[r].at = "save"
    /\ LoopRuns(r)
    /\ IF rq[r].denied
       THEN /\ RqReturn(r, "reconfigure: error - PermissionError")
            /\ UNCHANGED file
       ELSE /\ file' = Doc(rq[r].dump)
            /\ RqReturn(r, "reconfigure: ok")
    /\ UNCHANGED <<hasConfig, cfg, lastStatus, rqBase, settingsVars, engineVars,
                   mainVars, pc, ret, afterStop, controlLeft>>

NextReconfig ==
    \/ \E r \in Requests : RqCheck(r)
    \/ \E r \in Requests : RqUpdate(r)
    \/ \E r \in Requests : RqGet(r)
    \/ \E r \in Requests : RqSave(r)

\* two reconfigure requests at the admin API of an idle service
SpecReconfig == InitReconfig /\ [][NextReconfig]_vars

(* ------------------------------------------- constructing ServiceSettings *)
\* ServiceSettings(**given[o])
BuildSettings(o) ==
    /\ built[o] = NotBuilt
    /\ built' = [built EXCEPT ![o] = Construct(given[o])]
    /\ UNCHANGED <<autostart, proc, nOut, given, linkVars, asideVars, configVars,
                   engineVars, mainVars, pc, ret, afterStop, controlLeft>>

NextSettings == \E o \in Objects : BuildSettings(o)

\* the service, and the peers of the outputs coming up
NextLate ==
    \/ Next
    \/ \E i \in Slots : PeerListen(i)

\* outputs whose peers come up after the start of the engine
SpecLate == InitLate /\ [][NextLate]_vars

\* the service on an engine_addr that can or cannot be bound
SpecBind == InitBind /\ [][Next]_vars

\* the construction of two ServiceSettings objects
SpecSettings == InitSettings /\ [][NextSettings]_vars

(* ------------------------------------------- creating the input socket *)
\* a call of the factory is about to be made, before any service
InitFactory ==
    /\ Constructed(0, 0)
    /\ ~autostart
    /\ proc = "none"
    /\ nOut = 0
    /\ NoConfigStore
    /\ NoRequests
    /\ NoSettingsBuilt
    /\ PeersListen
    /\ fin \in FactoryInputs
    /\ fout = NotCalled
    /\ NoLoad
    /\ NoResolve
    /\ NoManager

\* factory.create(addr, logger)
FactoryCreate ==
    /\ fout = NotCalled
    /\ fout' = Create(fin)
    /\ UNCHANGED <<serviceVars, fin, loadVars, resolverVars, managerVars>>

NextFactory == FactoryCreate

\* one call of NngPairSocketFactory.create
SpecFactory == InitFactory /\ [][NextFactory]_vars

(* ------------------------------------------------- ConfigManager.load *)
\* a backing file that is not YAML
Garbled == [k |-> "garbled", t |-> EmptyTree]

\* without a schema the decoded mapping is stored as it is
Raw(t) == [k |-> IF t.e THEN "raw+" ELSE "raw", d |-> t.d, p |-> t.p]

\* the files a load may find
LoadFiles == {AbsentFile, Garbled} \cup {Doc(t) : t \in ReconfigTrees}

\* the values a load may find in memory
CurrentValues ==
    {NullCfg, DefaultCfg, ServiceConfigValidate(Tree("m1", "absent", FALSE)),
     Raw(Tree("m2", "m1", TRUE))}

\* what ConfigManager.save writes for the default of the schema: to_dict()
\* if the schema has one (no defaults: an empty mapping), else model_dump()
DefaultDumps == {EmptyTree, ModelDump(DefaultCfg)}

\* a load that assigns what validation returned, whatever it is
LoadedUnchecked(t, old) == ServiceConfigValidate(t)

\* load: `self._configs = ServiceConfig.model_validate(data)`; when
\* model_validate raises, the assignment does not happen
Loaded(t, old) ==
    IF ServiceConfigValidate(t) = Invalid THEN old ELSE ServiceConfigValidate(t)

\* ConfigManager._configs after load() on file f, with `old` in memory
LoadValue(f, old, sch) ==
    IF f = AbsentFile THEN (IF sch THEN DefaultCfg ELSE old)
    ELSE IF f = Garbled THEN old
    ELSE IF f.t = EmptyTree THEN old
    ELSE IF sch THEN Loaded(f.t, old)
    ELSE Raw(f.t)

\* what load() returns ("ok") or raises
LoadResult(f, sch, w) ==
    IF f = AbsentFile THEN (IF sch /\ ~w THEN "PermissionError" ELSE "ok")
    ELSE IF f = Garbled THEN "YAMLError"
    ELSE IF f.t # EmptyTree /\ sch /\ ServiceConfigValidate(f.t) = Invalid
    THEN "ValidationError"
    ELSE "ok"

\* the backing file after load(): only a missing file is written, with the
\* default of the schema
LoadFile(f, sch, w, dump) ==
    IF f = AbsentFile /\ sch /\ w THEN Doc(dump) ELSE f

\* a load of a ConfigManager, with or without a schema, on any file, with
\* any value in memory
InitLoad ==
    /\ Constructed(0, 0)
    /\ ~autostart
    /\ proc = "none"
    /\ nOut = 0
    /\ hasConfig = TRUE
    /\ cfg \in CurrentValues
    /\ file \in LoadFiles
    /\ lastStatus = NoReport
    /\ NoRequests
    /\ NoSettingsBuilt
    /\ PeersListen
    /\ NoFactoryCall
    /\ NoResolve
    /\ NoManager
    /\ schema \in BOOLEAN
    /\ writable \in BOOLEAN
    /\ lret = "none"

\* ConfigManager.load()
ConfigLoad ==
    /\ \E dump \in DefaultDumps :
          file' = LoadFile(file, schema, writable, dump)
    /\ cfg' = LoadValue(file, cfg, schema)
    /\ lret' = LoadResult(file, schema, writable)
    /\ UNCHANGED <<autostart, proc, nOut, given, built, linkVars, factoryVars,
                   resolverVars, managerVars, schema, writable, hasConfig, lastStatus, rq, rqBase, engineVars, mainVars,
                   pc, ret, afterStop, controlLeft>>

NextLoad == ConfigLoad

\* loads of one ConfigManager
SpecLoad == InitLoad /\ [][NextLoad]_vars

(* ------------------------------------------- resolving a component name *)
\* a resolution is about to be made, before any service
InitResolve ==
    /\ Constructed(0, 0)
    /\ ~autostart
    /\ proc = "none"
    /\ nOut = 0
    /\ NoConfigStore
    /\ NoRequests
    /\ NoSettingsBuilt
    /\ PeersListen
    /\ NoFactoryCall
    /\ NoLoad
    /\ NoManager
    /\ lib \in Libraries
    /\ rootOk \in BOOLEAN
    /\ rin \in ResolveInputs(lib)
    /\ rres = NotResolved

\* ComponentResolver.resolve(component_type)
ResolveCall ==
    /\ rres = NotResolved
    /\ rres' = Resolve(lib, rootOk, rin)
    /\ UNCHANGED <<serviceVars, factoryVars, loadVars, managerVars, lib, rootOk, rin>>

NextResolve == ResolveCall

\* one call of ComponentResolver.resolve
SpecResolve == InitResolve /\ [][NextResolve]_vars

(* ------------------------------------------- the Manager's command loop *)
\* a Manager is being constructed: its socket listens, the thread is next
InitManager ==
    /\ Constructed(0, 0)
    /\ ~autostart
    /\ proc = "none"
    /\ nOut = 0
    /\ NoConfigStore
    /\ NoRequests
    /\ NoSettingsBuilt
    /\ PeersListen
    /\ NoFactoryCall
    /\ NoLoad
    /\ NoResolve
    /\ mctor = CtorOrder[1]
    /\ mtables = NoTables
    /\ mdeco \in SUBSET Decorable
    /\ mloop = NotStarted
    /\ mreq = "-"
    /\ msent = 0
    /\ mgot = 0
    /\ mstop = FALSE

managerRest == <<serviceVars, factoryVars, loadVars, resolverVars, mdeco>>

\* Manager.__init__: its next statement
CtorStep ==
    /\ mctor # "done"
    /\ mctor' = CtorAfter(mctor)
    /\ mloop' = IF mctor = "thread" THEN Loop("recv", "-", "-") ELSE mloop
    /\ mtables' = [handlers |-> mtables.handlers \/ mctor = "handlers",
                   decorated |-> mtables.decorated \/ mctor = "decorated",
                   discovered |-> mtables.discovered \/ mctor = "discover"]
    /\ UNCHANGED <<managerRest, mreq, msent, mgot, mstop>>

\* a client sends a request to the listening socket and waits for the reply
ClientSend(verb) ==
    /\ mreq = "-"
    /\ msent < MaxCmds
    /\ mreq' = verb
    /\ msent' = msent + 1
    /\ UNCHANGED <<managerRest, mctor, mtables, mloop, mgot, mstop>>

\* _command_loop: the loop's test and recv; a timeout changes nothing
LoopRecv ==
    /\ mloop.at = "recv"
    /\ IF mstop THEN mloop' = Loop("ended", "-", "-")
       ELSE /\ mreq # "-"
            /\ mloop' = Loop("handle", mreq, "-")
    /\ UNCHANGED <<managerRest, mctor, mtables, mreq, msent, mgot, mstop>>

\* _command_loop: _handle_cmd(cmd), outside of any try; a table that does not
\* exist yet raises AttributeError and ends the thread
LoopHandle ==
    /\ mloop.at = "handle"
    /\ mloop' = IF mtables.handlers /\ mtables.decorated
                THEN Loop("send", mloop.cmd, HandleCmd(mloop.cmd, mtables, mdeco))
                ELSE Loop("dead", mloop.cmd, "-")
    /\ UNCHANGED <<managerRest, mctor, mtables, mreq, msent, mgot, mstop>>

\* _command_loop: send(reply); on a closed socket the loop ends
LoopSend ==
    /\ mloop.at = "send"
    /\ IF mstop
       THEN /\ mloop' = Loop("ended", "-", "-")
            /\ UNCHANGED <<mreq, mgot>>
       ELSE /\ mloop' = Loop("recv", "-", "-")
            /\ mreq' = "-"
            /\ mgot' = mgot + 1
    /\ UNCHANGED <<managerRest, mctor, mtables, msent, mstop>>

\* _close_manager: the stop event is set and the socket closed
CloseManager ==
    /\ mctor = "done"
    /\ ~mstop
    /\ mstop' = TRUE
    /\ UNCHANGED <<managerRest, mctor, mtables, mloop, mreq, msent, mgot>>

NextManager ==
    \/ CtorStep
    \/ \E verb \in Verbs : ClientSend(verb)
    \/ LoopRecv
    \/ LoopHandle
    \/ LoopSend
    \/ CloseManager

\* a Manager's construction, its loop thread and one client
SpecManager == InitManager /\ [][NextManager]_vars

(* ================================================================ claims *)
StartSteps == {"start_chk", "eng_start_chk", "eng_start_set", "eng_thread_start"}
StopSteps == {"stop_chk", "eng_stop_chk", "eng_stop_join", "eng_stop_close",
              "eng_stop_timeout"}

\* C1: a start issued after a stop has returned succeeds: it ends with
\* "engine started" and one more loop worker alive, never with an error
\* raised because the thread of the previous lifecycle was already used.
C1_RestartSucceeds ==
    [][\A c \in Callers :
         (pc[c] = "eng_thread_start" /\ afterStop[c] /\ pc'[c] = "idle")
            => (ret'[c] = "engine started" /\ workers' = workers + 1)]_vars

\* C2: a start on a running engine returns "Ignored: Engine is already
\* running" and changes nothing of the engine, its sockets and its metrics;
\* and under every interleaving of the starts of the main activity and of
\* the admin API at most one loop worker is alive.
C2_DuplicateStartIdempotent ==
    [][/\ \A c \in Callers :
            (pc[c] = "start_chk" /\ running /\ pc'[c] # pc[c])
               => /\ pc'[c] = "idle"
                  /\ ret'[c] = "Ignored: Engine is already running"
                  /\ UNCHANGED <<running, paused, threadStarted, workers,
                                 workerVars, peerVars, out, metricVars>>
       /\ workers' <= 1]_vars

\* a start on the running engine has returned "Ignored"
C2_Witness ==
    /\ \E c \in Callers :
          pc[c] = "idle" /\ ret[c] = "Ignored: Engine is already running"
    /\ running
    /\ workers = 1
    /\ startsTotal = 1

C4_ExceptionKeepsLoop ==
    [][(wpc = "proc" /\ ServiceProcess(wraw) = Raise /\ wpc' # wpc)
          => /\ wpc' = "top"
             /\ workers' = workers
             /\ running' = running
             /\ UNCHANGED <<observed, reply, out>>]_vars

\* the component has raised on the first message, Boom (the one message of
\* one byte that gets no reply), and the second message has been received,
\* processed and answered
C4_Witness ==
    /\ proc = "mock"
    /\ nOut = 0
    /\ running
    /\ workers = 1
    /\ received = 2
    /\ procCalls = 2
    /\ bytesTotal = Len(Boom) + 2
    /\ reply = [n |-> 1, idx |-> 2, data |-> <<2, 1>>]

\* C5: a result is sent to the working slots in the order of out_addr: a
\* broadcast starts at slot 1 and goes up by one to the last slot; a slot
\* observes something only when the broadcast is at it and the slot is
\* working, what it observes is the result of process for the message being
\* handled, once; a working slot the broadcast passes observes the result
\* or is marked broken.
C5_BroadcastInOrder ==
    [][/\ \A i \in Slots :
            observed'[i] # observed[i]
               => /\ wpc = "send" /\ wslot = i /\ out[i] = "ok"
                  /\ observed'[i] =
                        Observe(observed[i], received, ServiceProcess(wraw).v)
       /\ (wpc = "proc" /\ wpc' = "send") => wslot' = 1
       /\ (wpc = "send" /\ nOut > 0 /\ wslot' # wslot)
             => /\ wslot' = IF wslot < nOut THEN wslot + 1 ELSE 0
                /\ out[wslot] = "ok"
                      => \/ observed'[wslot].n = observed[wslot].n + 1
                         \/ out'[wslot] = "broken"
       /\ (wpc = "send" /\ nOut > 0 /\ wpc' = "top") => wslot = nOut]_vars

\* both peers of an engine with two outputs have observed, once, the
\* reversed message of the component
C5_Witness ==
    /\ nOut = 2
    /\ proc = "mock"
    /\ wraw = <<1, 2>>
    /\ received >= 1
    /\ \A i \in Slots : observed[i] = [n |-> 1, idx |-> received, data |-> <<2, 1>>]

\* C6: a send failure on a slot marks that slot broken and nothing else: the
\* other slots are untouched, the engine stays running with its worker, and
\* the broadcast goes on with the slot after it; a later broadcast passes a
\* broken slot and goes on with the slot after it.
C6_SendFailureIsolated ==
    [][/\ \A i \in Slots :
            (wpc = "send" /\ wslot = i /\ out[i] = "ok" /\ out'[i] = "broken"
             /\ pc' = pc)
               => /\ \A j \in Slots \ {i} :
                       out'[j] = out[j] /\ observed'[j] = observed[j]
                  /\ running' = running
                  /\ workers' = workers
                  /\ wslot' = IF i < nOut THEN i + 1 ELSE 0
                  /\ wpc' = IF i < nOut THEN "send" ELSE "top"
       /\ (wpc = "send" /\ wslot \in Slots /\ out[wslot] = "broken"
           /\ wslot' # wslot)
             => /\ wslot' = IF wslot < nOut THEN wslot + 1 ELSE 0
                /\ UNCHANGED <<out, observed, running, workers>>]_vars

\* with no control request issued: slot 1 took the first result and then
\* broke, slot 2 took both results
C6_Witness ==
    /\ nOut = 2
    /\ startsTotal = 1
    /\ controlLeft = 1
    /\ running
    /\ workers = 1
    /\ out[1] = "broken"
    /\ observed[1].n = 1 /\ observed[1].idx = 1
    /\ observed[2].n = 2 /\ observed[2].idx = 2

\* C7: per-slot FIFO: each observation of a slot's peer is one more message,
\* it carries the result for the message the engine received last, and that
\* message was received after the one of the slot's previous observation.
C7_PerSlotFifo ==
    [][\A i \in Slots :
         observed'[i] # observed[i]
            => /\ observed'[i].n = observed[i].n + 1
               /\ observed'[i].idx = received
               /\ observed'[i].idx > observed[i].idx]_vars

\* both peers have observed two results, the second one after the first
C7_Witness ==
    /\ nOut = 2
    /\ received = 2
    /\ \A i \in Slots : observed[i].n = 2 /\ observed[i].idx = 2

\* C8: an empty payload never invokes process and nothing is sent for it.
C8_EmptyPayloadSkipped ==
    [][(wpc = "proc" /\ wraw = << >>)
          => (procCalls' = procCalls /\ wpc' # "send")]_vars

\* C9: when process returns None or an empty payload, nothing is sent for
\* that message.
C9_EmptyResultSkipped ==
    [][(wpc = "proc" /\ (\/ ServiceProcess(wraw) = None
                         \/ ServiceProcess(wraw) = Bytes(<< >>)))
          => wpc' # "send"]_vars

Sections == {"null", "m1", "m2"}

Malformed(t) == t.d = "bad" \/ t.p = "bad"

\* C12: a reconfigure with a tree that fails validation returns
\* "reconfigure: error - ..." and leaves the configuration in memory and
\* the file as they were
C12_InvalidUpdateRejected ==
    [][\A t \in ReconfigTrees, persist \in BOOLEAN :
          (hasConfig /\ Malformed(t) /\ ReconfigureRequest(t, persist)) =>
              /\ ret'["admin"] = "reconfigure: error - ValidationError"
              /\ cfg' = cfg
              /\ file' = file]_vars

\* a reconfigure was rejected after an earlier one had installed
\* {detectors: m2, parsers: m1} without saving it
C12_Witness ==
    /\ hasConfig
    /\ ret["admin"] = "reconfigure: error - ValidationError"
    /\ cfg = ServiceConfigValidate(Tree("m2", "m1", FALSE))
    /\ file # Doc(Tree("m2", "m1", FALSE))

(* ------------------------------------------------- C13: persist = false *)
\* C13 as stated: after a reconfigure with persist = false and a valid
\* non-empty tree has returned ok, status reports that tree and the file is
\* unchanged
C13_StatusReportsSubmittedTree ==
    [][\A t \in ReconfigTrees :
          (hasConfig /\ t # EmptyTree /\ ~Malformed(t)
             /\ ReconfigureRequest(t, FALSE)) =>
              /\ ret'["admin"] = "reconfigure: ok"
              /\ StatusConfigs' = t
              /\ file' = file]_vars

\* C13, amended: status then reports the detectors and parsers sections of
\* the tree, a section the tree does not have as null and no other key of
\* the tree; the file is unchanged
C13_StatusReportsValidatedTree ==
    [][\A t \in ReconfigTrees :
          (hasConfig /\ t # EmptyTree /\ ~Malformed(t)
             /\ ReconfigureRequest(t, FALSE)) =>
              /\ ret'["admin"] = "reconfigure: ok"
              /\ StatusConfigs'.d = (IF t.d = "absent" THEN "null" ELSE t.d)
              /\ StatusConfigs'.p = (IF t.p = "absent" THEN "null" ELSE t.p)
              /\ StatusConfigs'.e = FALSE
              /\ file' = file]_vars

\* a status request reported {detectors: m2, parsers: m1} while the file
\* still holds the document the store was built on
C13_Witness ==
    /\ hasConfig
    /\ lastStatus.configs = Tree("m2", "m1", FALSE)
    /\ cfg = ServiceConfigValidate(Tree("m2", "m1", FALSE))
    /\ file = Doc(Tree("m1", "absent", FALSE))

(* -------------------------------------------------- C14: persist = true *)
\* C14: after a reconfigure with persist = true has returned ok, a store
\* built on the file loads the configuration that is in memory
C14_PersistRoundTrip ==
    [][\A t \in ReconfigTrees :
          (hasConfig /\ ReconfigureRequest(t, TRUE)
             /\ ret'["admin"] = "reconfigure: ok") =>
              /\ file'.k = "doc"
              /\ LoadExisting(file') = cfg'
              /\ cfg' = ServiceConfigValidate(t)]_vars

\* a reconfigure saved {detectors: m2, parsers: m1}; the file loads to the
\* configuration in memory
C14_Witness ==
    /\ hasConfig
    /\ ret["admin"] = "reconfigure: ok"
    /\ file = Doc(Tree("m2", "m1", FALSE))
    /\ LoadExisting(file) = cfg
    /\ cfg.d = "m2"

(* ---------------------------------------------------- C15: empty config *)
\* C15: with a configuration store, a reconfigure with an empty tree returns
\* "reconfigure: no-op (empty config data)" for either value of persist and
\* leaves the configuration in memory and the file as they were
C15_EmptyReconfigureNoOp ==
    [][\A persist \in BOOLEAN :
          (hasConfig /\ ReconfigureRequest(EmptyTree, persist)) =>
              /\ ret'["admin"] = "reconfigure: no-op (empty config data)"
              /\ cfg' = cfg
              /\ file' = file]_vars

\* an empty reconfigure returned the no-op string after an earlier one had
\* installed and saved {detectors: m1, other: ...}
C15_Witness ==
    /\ hasConfig
    /\ ret["admin"] = "reconfigure: no-op (empty config data)"
    /\ cfg = ServiceConfigValidate(Tree("m1", "absent", TRUE))
    /\ file = Doc(Tree("m1", "null", FALSE))

(* ------------------------------------------- C16: stop when not running *)
\* C16: a stop that finds the engine not running returns the diagnostic
\* "engine already stopped", raises nothing, and changes neither the state
\* of the engine, nor a socket, nor a metric
C16_StopOnStoppedIsNoOp ==
    [][\A c \in Callers :
          (pc[c] = "stop_chk" /\ ~running /\ pc'[c] # pc[c]) =>
              /\ pc'[c] = "idle"
              /\ ret'[c] = "engine already stopped"
              /\ UNCHANGED <<running, paused, threadStarted, workers, workerVars,
                             out, metricVars, exitEvent, webUp>>]_vars

\* the admin API's stop on an engine that an earlier stop had stopped
C16_Witness ==
    /\ ret["admin"] = "engine already stopped"
    /\ pc["admin"] = "idle"
    /\ ~running
    /\ threadStarted
    /\ gauge = "stopped"
    /\ startsTotal = 1

(* -------------------------------------- C17: stop and a message in flight *)
\* a stop closes the sockets: the step from the join to the return
ClosesSockets(c) ==
    /\ pc[c] \in {"eng_stop_close", "eng_stop_timeout"}
    /\ pc'[c] = "idle"

\* the worker is inside process or inside the broadcast of a message
InFlight == wpc \in {"proc", "send"}

C18_StoppedWorkerHasExited ==
    (/\ threadStarted
     /\ ~running
     /\ \A c \in Callers : pc[c] = "idle"
     /\ inq = << >>
     /\ wpc \notin {"top", "proc", "send"})
        => wpc = "exited"

(* --------------------------------------------- C19: engine_starts_total *)
\* the starts that have taken the engine to Running: a start succeeds when
\* it starts the loop thread, which sets threadStarted and can happen once
SuccessfulStarts == IF threadStarted THEN 1 ELSE 0

\* C19: while no start is in flight, engine_starts_total is the number of
\* starts that have taken the engine from not running to running; a start
\* that is ignored or fails, a stop, a reconfigure and a status leave it alone
C19_StartsTotalCountsTransitions ==
    (\A c \in Callers : pc[c] \notin StartSteps) => startsTotal = SuccessfulStarts

(* ---------------------------------------- C20: data_processed_bytes_total *)
\* the worker hands the message it received to Service.process
Processes == wpc = "proc" /\ wpc' # "proc"

\* C20: data_processed_bytes_total never decreases; the step that processes
\* a received payload adds exactly the length of the payload, whether the
\* processor then returns bytes, returns None or raises, and so nothing for
\* an empty payload; no other step changes the counter
C20_BytesTotalCountsPayloads ==
    [][/\ bytesTotal' >= bytesTotal
       /\ Processes => bytesTotal' = bytesTotal + Len(wraw)
       /\ ~Processes => bytesTotal' = bytesTotal]_vars

\* two payloads have been received and processed, Boom, on which the
\* processor raises, and Skip, for which it returns None; nothing was sent
\* back and both lengths have been counted
C20_Witness ==
    /\ proc = "mock"
    /\ nOut = 0
    /\ received = 2
    /\ procCalls = 2
    /\ reply.n = 0
    /\ wpc = "top"
    /\ bytesTotal = Len(Boom) + Len(Skip)

(* ------------------------------------------------- C21: teardown of run *)
\* Service.run, step 4, comes to its end: the engine was found stopped, or
\* the stop that run called has returned
RunTeardownEnds == mainpc \in {"td_eng", "td_call"} /\ mainpc' = "exit_ctx"

\* C21: once the exit event is set, run stops the web server before it
\* stops the engine, and when the teardown of run ends the engine is not
\* running
C21_TeardownLeavesEngineStopped ==
    [][/\ mainpc' \in {"td_eng", "td_call"} => webUp' = "stopped" /\ exitEvent'
       /\ RunTeardownEnds => ~running']_vars

(* ----------------------------------------------- C22: leaving the scope *)
\* C22: when the scope `with service: service.run()` has been left, by a
\* return of run, by an exception or by a signal, the web server has been
\* stopped, the engine is not running and no output socket is open
C22_ScopeLeftEverythingStopped ==
    mainpc = "done" =>
        /\ webUp = "stopped"
        /\ ~running
        /\ \A i \in Slots : out[i] \in {"unopened", "closed"}

(* --------------------------------------- C23: concurrent reconfigure *)
\* configuration and file after a reconfigure with payload h that runs
\* alone on the configuration and file s
After(s, h) ==
    IF IsNoOp(h.t) \/ ServiceConfigValidate(h.t) = Invalid THEN s
    ELSE [cfg |-> ServiceConfigValidate(h.t),
          file |-> IF h.persist /\ ~h.denied
                   THEN Doc(ModelDump(ServiceConfigValidate(h.t)))
                   ELSE s.file]

\* the outcomes of the two sequential orders of the requests
SequentialOutcomes ==
    {After(After(rqBase, rq["r1"]), rq["r2"]), After(After(rqBase, rq["r2"]), rq["r1"])}

C24_BrokenOutputsDoNotAbortStart ==
    /\ [][\A c \in Callers :
            /\ (pc[c] = "eng_start_set" /\ pc'[c] # pc[c]) =>
                  /\ pc'[c] = "eng_thread_start"
                  /\ running'
                  /\ out' \in [Slots -> {"ok", "broken"}]
            /\ (pc[c] = "eng_thread_start" /\ ~threadStarted /\ pc'[c] # pc[c]) =>
                  /\ ret'[c] = "engine started"
                  /\ workers' = 1
                  /\ wpc' = "top"]_vars
    /\ [](wpc = "recv" /\ inq # << >> => ENABLED WorkerRecv)
    /\ [](wpc = "proc" => ENABLED WorkerProcess)

\* an engine with two outputs, both of which failed to open, is running
\* and has received and processed a message
C24_Witness ==
    /\ nOut = 2
    /\ \A i \in Slots : out[i] = "broken"
    /\ running
    /\ workers = 1
    /\ received = 1
    /\ procCalls = 1
    /\ \E c \in Callers : ret[c] = "engine started"

(* --------------------------------------- C25: reply on the input socket *)
\* C25: with no output configured, a result of process that is not None is
\* sent back, as it is, to the peer on the input socket, once; a None and
\* an exception of process produce no reply; nothing else reaches that peer
C25_ReplyOnInputSocket ==
    [][nOut = 0 =>
          /\ (wpc = "proc" /\ wpc' # wpc) =>
                /\ reply' = reply
                /\ IF ServiceProcess(wraw) \in {None, Raise}
                   THEN wpc' = "top"
                   ELSE wpc' = "send" /\ wout' = ServiceProcess(wraw).v
          /\ (wpc = "send" /\ wpc' # wpc) =>
                /\ reply' = Observe(reply, received, wout)
                /\ wpc' = "top"
          /\ reply' # reply => wpc = "send"]_vars

\* of two messages, the first was answered with its bytes reversed and the
\* second, Skip, for which the component returns None, got no reply
C25_Witness ==
    /\ proc = "mock"
    /\ nOut = 0
    /\ received = 2
    /\ procCalls = 2
    /\ wpc = "top"
    /\ bytesTotal = 2 + Len(Skip)
    /\ reply = [n |-> 1, idx |-> 1, data |-> <<2, 1>>]

(* ------------------------------------------------ C26: endpoint schemes *)
\* the schemes of the transports the engine supports
EndpointSchemes == {"ipc", "tcp"}

\* C26: a ServiceSettings object holds no endpoint URI of a scheme other
\* than ipc and tcp, neither as engine_addr nor at any position of out_addr
C26_SchemesValidated ==
    \A o \in Objects :
        built[o].k = "settings" =>
            /\ built[o].engine = NoAddr \/ built[o].engine.scheme \in EndpointSchemes
            /\ \A j \in DOMAIN built[o].out : built[o].out[j].scheme \in EndpointSchemes

(* --------------------------------------------------- C27: component_id *)
\* both objects are built, from inputs without an id
BothDerived ==
    \A o \in Objects : built[o].k = "settings" /\ given[o].id = ""

\* C27: an id that is given is kept; without one, two settings with the
\* same type and the same name get the same id, and two settings without a
\* name that agree on the type, on engine_addr and on out_addr get the same id
C27_ComponentIdDerivation ==
    /\ \A o \in Objects :
          (built[o].k = "settings" /\ given[o].id # "") =>
              built[o].id = GivenId(given[o].id)
    /\ (/\ BothDerived
        /\ given[1].name # ""
        /\ given[1].name = given[2].name
        /\ given[1].type = given[2].type) => built[1].id = built[2].id
    /\ (/\ BothDerived
        /\ given[1].name = "" /\ given[2].name = ""
        /\ given[1].type = given[2].type
        /\ given[1].engine = given[2].engine
        /\ built[1].out = built[2].out) => built[1].id = built[2].id

(* ------------------------------------------- C28: start after a stop *)
\* C28: a start that was issued on a stopped engine, with no other request
\* in progress when it returns, leaves the engine running and not paused,
\* with a live loop worker and with every output socket newly opened
C28_RestartReinitializes ==
    [][\A c \in Callers :
         (/\ pc[c] \in StartSteps /\ afterStop[c] /\ pc'[c] = "idle"
          /\ \A d \in Callers \ {c} : pc[d] = "idle")
            => /\ running'
               /\ ~paused'
               /\ workers' = 1
               /\ \A i \in Slots : out'[i] \in {"ok", "broken"}]_vars

(* ------------------------------------------------ C29: a paused engine *)
\* C29: while the engine is paused the worker takes no message from the
\* input socket, and no step other than a receive removes a message from
\* the queue or reorders it
C29_PausedWorkerReceivesNothing ==
    [][/\ paused => received' = received
       /\ \/ inq' = inq
          \/ \E m \in Payloads : inq' = Append(inq, m)
          \/ inq # << >> /\ inq' = Tail(inq) /\ wraw' = Head(inq)]_vars

(* --------------------------------------------------- C30: broken slots *)
\* an output socket is opened or closed: Engine.start and Engine.stop
LifecycleStep ==
    \E c \in Callers : pc[c] \in {"eng_start_set", "eng_stop_close", "eng_stop_timeout"}

\* C30: a slot that is marked broken observes nothing, and stays broken
\* until a start opens the outputs again or a stop closes them
C30_BrokenSlotNotRetried ==
    [][\A i \in Slots :
         out[i] = "broken"
            => /\ observed'[i] = observed[i]
               /\ out'[i] # "broken" => LifecycleStep]_vars

\* slot 1 could not be opened at start, slot 2 took the first result and
\* failed on the second: two messages are handled, and neither slot has
\* observed anything after it was marked broken
C30_Witness ==
    /\ nOut = 2
    /\ proc = "mock"
    /\ running
    /\ startsTotal = 1
    /\ \A i \in Slots : out[i] = "broken"
    /\ observed[1].n = 0
    /\ observed[2].n = 1 /\ observed[2].idx = 1
    /\ received = 2
    /\ procCalls = 2
    /\ wpc = "top"

(* ---------------------------------------------------- C31: late binding *)
\* the broadcast passes slot i
Passes(i) == wpc = "send" /\ wslot = i /\ wslot' # wslot

C32_WorkerStartedByRunOnly ==
    [][/\ workers' > workers =>
             mainpc \notin {"ctor", "ctor_call"} /\ webUp # "new"
       /\ (running' /\ ~running) =>
             IF autostart
             THEN mainpc = "run_call" \/ pc["admin"] = "eng_start_set"
             ELSE pc["admin"] = "eng_start_set"]_vars

(* ------------------------------------------ C37: a failed create closes *)
\* C37: a create that raised has left no socket open, neither the Pair0
\* socket it created nor the probe of the tcp check
C37_FailedCreateLeavesNothingOpen ==
    fout.k \notin {"none", "socket"} => fout.sock # "open" /\ fout.probe # "open"

LoadErrors == {"YAMLError", "ValidationError"}

\* C34: a load of a file that is not YAML, or, with a schema, of a document
\* that violates it, raises and leaves the value in memory and the file as
\* they were
C34_FailedLoadKeepsValue ==
    [][(\/ file = Garbled
        \/ file.k = "doc" /\ schema /\ ~EnvelopeAccepts(file.t))
          => /\ lret' \in LoadErrors
             /\ cfg' = cfg
             /\ file' = file]_vars

\* a validated configuration is in memory and the load of a document with
\* a malformed section has raised
C34_Witness ==
    /\ lret = "ValidationError"
    /\ schema
    /\ file = Doc(Tree("bad", "absent", FALSE))
    /\ cfg = ServiceConfigValidate(Tree("m1", "absent", FALSE))

(* ------------------------------------------------ C35: a save that fails *)
\* C35: an operation whose save fails with a permission error leaves the
\* value in memory as it was before the operation
C35_FailedSaveKeepsMemory ==
    [][lret' = "PermissionError" => cfg' = cfg]_vars

(* ---------------------------------------- C36: the default of the schema *)
\* C36: a load on a missing file with a schema leaves a file, the default
\* of the schema in memory, and a file whose load yields that default again;
\* without a schema nothing is installed and no file is created
C36_DefaultCreatedAndReloads ==
    [][/\ (file = AbsentFile /\ schema /\ writable)
             => /\ lret' = "ok"
                /\ file' # AbsentFile
                /\ cfg' = DefaultCfg
                /\ LoadValue(file', NullCfg, schema) = DefaultCfg
       /\ (file = AbsentFile /\ ~schema)
             => file' = AbsentFile /\ cfg' = cfg]_vars

(* ------------------------------------- C39: a reconfigure that fails *)
\* C39: a reconfigure that returns "reconfigure: error - ..." leaves the
\* configuration in memory as it was
C39_FailedReconfigureKeepsMemory ==
    [][\A t \in ReconfigTrees, persist \in BOOLEAN :
         (/\ ReconfigureRequest(t, persist)
          /\ ret'["admin"] \in {"reconfigure: error - ValidationError",
                               "reconfigure: error - PermissionError"})
            => cfg' = cfg]_vars

(* ------------------------------------------- C38: short-name resolution *)
\* the module exports a class of the name that derives from the base and is
\* not the base
Exports(m) == m.sym \notin {"none", "value", "class", "base"}

\* C38: for a short name the resolver returns the first module in walk
\* order that is imported and exports such a class, whatever modules before
\* it fail to import, and fails with ImportError when the root or no module
\* qualifies
C38_FirstMatchInWalkOrder ==
    (rres # NotResolved /\ ~rin.dotted) =>
        LET hits == {i \in DOMAIN lib : lib[i].imports /\ Exports(lib[i])}
        IN  IF rootOk /\ hits # {}
            THEN /\ rres.k = "found"
                 /\ rres.at \in hits
                 /\ \A j \in hits : rres.at <= j
            ELSE rres.k = "ImportError"

\* the first module fails to import, the second exports the base itself,
\* the third is the one returned
C38_Witness ==
    /\ Len(lib) = 3
    /\ ~lib[1].imports
    /\ lib[2].imports /\ lib[2].sym = "base"
    /\ rres.k = "found"
    /\ rres.at = 3

(* --------------------------- C40: the command loop and the constructor *)
\* C40: whatever the interleaving of the constructor and the loop thread,
\* the loop thread does not end by an exception, a command is handled only
\* with both handler tables present, and every request sent is either
\* answered once or still waited on
C40_LoopNeverRunsBeforeTables ==
    /\ mloop.at # "dead"
    /\ mloop.at = "send" => (mtables.handlers /\ mtables.decorated)
    /\ msent = mgot + (IF mreq = "-" THEN 0 ELSE 1)

====
